---- MODULE Spec2Model ----
(***************************************************************************)
(* MIDI-AUTO: the note-to-key mapping, the trim / grouping of the timed    *)
(* message list and the playback worker of src/main.py.                    *)
(*                                                                         *)
(* Time is counted in integer ticks of one millisecond.  A MIDI file is a  *)
(* sequence of messages [time, type, note, velocity] where time is the     *)
(* delta to the previous message, as mido yields it.                       *)
(***************************************************************************)
EXTENDS Integers, Sequences, FiniteSets, TLC

VARIABLES
    sq,          \* squeeze_index under test: inputs, result, previous call
    km,          \* midi_note_to_key under test: a Config, the call and the previous call
    pipe,        \* the load pipeline under test: file, timed list, trim window, groups
    source,      \* the MIDI file the user picks in the file dialog (its messages)
    disk,        \* the storage folder midis/: stored path i holds disk[i]
    ui,          \* the tk variables of the settings box
    cfg,         \* self.cfg
    stop_event,  \* self._stop_event
    play_thread, \* self._play_thread: 0 (None) or the index of the last thread started
    workers,     \* the threads running _play_worker: their locals and position
    kb,          \* per thread, the key events it posted through kb.press / kb.release
    ui_pc,       \* where the UI thread is: "idle" or inside play()'s time.sleep(0.05)
    after_q,     \* callbacks queued with self.after(0, fn), run by the UI thread
    play_btn,    \* state of the Play button
    stop_btn,    \* state of the Stop button
    log,         \* the log widget: the set of [w, text] for the lines that end a
                 \* thread's run (w) and for "Stop requested." (w = 0); the lines
                 \* that only inform ("Lead-in ...", "Trim: ...", "Imported ...")
                 \* are not kept
    stop_mark,   \* history: per thread, the group it was committed to when the stop
                 \* event was last set while it ran (-1: none, or cleared since)
    presets,     \* self.presets: preset name -> the dict save_preset stores
    presets_file,    \* the contents of presets.json (CONFIG_FILE)
    preset_var,      \* the name shown in the presets combo box
    preset_name_var, \* the text of the "Preset name" entry
    msgbox,      \* the title of the last messagebox.showerror, None when none
    saved,       \* history: preset name -> the tk variables and cfg.midi_path
                 \* at the last save_preset that stored the name
    STOP_FLAG,   \* drawing/main.py: the global STOP_FLAG
    DRAW_THREAD, \* the global DRAW_THREAD: 0 (None) or the last draw thread started
    app,         \* the PixelArtGridDrawer: its fields, widget states and entries
    draw_threads,    \* the threads running draw_loop: their locals and position
    clicks,      \* per draw thread, the screen points it clicked (quartz_click)
    draw_mark    \* history: per draw thread, its clicks and visited pixels when
                 \* stop_drawing last set STOP_FLAG while it ran (-1: none)

vars == <<sq, km, pipe, source, disk, ui, cfg, stop_event, play_thread, workers, kb,
          ui_pc, after_q, play_btn, stop_btn, log, stop_mark,
          presets, presets_file, preset_var, preset_name_var, msgbox, saved,
          STOP_FLAG, DRAW_THREAD, app, draw_threads, clicks, draw_mark>>

\* Python's None
None == "None"

(***************************************************************************)
(* Key tables (src/main.py 65-127)                                         *)
(***************************************************************************)
KEYS_15 == <<"a", "s", "d", "f", "g", "h", "j", "q", "w", "e", "r", "t", "y", "u", "i">>

DIATONIC_SEMITONES == <<0, 2, 4, 5, 7, 9, 11>>

\* {s: i for i, s in enumerate(DIATONIC_SEMITONES)}
SEMITONE_TO_DEGREE == [s \in {DIATONIC_SEMITONES[i] : i \in 1..Len(DIATONIC_SEMITONES)} |->
                         (CHOOSE i \in 1..Len(DIATONIC_SEMITONES) : DIATONIC_SEMITONES[i] = s) - 1]

\* The dicts LOW, MID, HIGH are sequences here: semitone s is entry s + 1.
get_keymaps(use_windows) ==
    [HIGH |-> <<"q", "2", "w", "3", "e", "r", "5", "t", "6", "y", "7", "u">>,
     HIGH_PLUS_C |-> "i",
     MID |-> <<"z", "s", "x", "d", "c", "v", "g", "b", "h", "n", "j", "m">>,
     LOW |-> IF use_windows
             THEN <<"l", ".", ";", "'", "/", "o", "0", "p", "-", "[", "=", "]">>
             ELSE <<",", "l", ".", ";", "/", "o", "0", "p", "-", "[", "=", "]">>]

\* dict.get(semitone): None when the key is absent
DictGet(table, semitone) ==
    IF semitone + 1 \in DOMAIN table THEN table[semitone + 1] ELSE None

\* cfg.midi_path = "": stored paths are the indices 1, 2, ... of disk
NoPath == 0

\* the path of a file that is not below APP_DIR: Path.relative_to(APP_DIR)
\* raises ValueError for it (src/main.py 351-353)
OutsidePath == -1

(***************************************************************************)
(* Config (src/main.py 130-153), with the dataclass defaults               *)
(***************************************************************************)
Config ==
    [midi_path |-> NoPath, base_c_midi |-> 48, transpose |-> 0,
     speed |-> [num |-> 1, den |-> 1], lead_in |-> 2000, trim_silence |-> TRUE,
     always_tap |-> TRUE, tap_ms |-> 18,
     use_windows_map |-> FALSE, use_15_keys |-> FALSE, chromatic_15 |-> TRUE,
     squeeze_enabled |-> FALSE, squeeze_lo |-> 3, squeeze_hi |-> 11]

(***************************************************************************)
(* clamp_int, squeeze_index (src/main.py 156-169)                          *)
(***************************************************************************)
clamp_int(x, lo, hi) == IF x < lo THEN lo ELSE IF x > hi THEN hi ELSE x

\* Python round(n / d) for integers n >= 0, d > 0: nearest, ties to even.
\* (n / 14.0 is exact at the ties n = 14k + 7, and nowhere else within
\* 1/14 of a tie, so the float division does not move the result.)
PyRound(n, d) ==
    LET q == n \div d
        r == n % d
    IN  IF 2 * r < d THEN q
        ELSE IF 2 * r > d THEN q + 1
        ELSE IF q % 2 = 0 THEN q ELSE q + 1

\* A slip: the final clamp and the lo/hi swap are missing.
squeeze_indexNoSwap(idx_0_14, lo, hi) ==
    LET idx == clamp_int(idx_0_14, 0, 14)
        lo1 == clamp_int(lo, 0, 14)
        hi1 == clamp_int(hi, 0, 14)
    IN  IF lo1 = hi1 THEN lo1
        ELSE IF hi1 > lo1 THEN lo1 + PyRound(idx * (hi1 - lo1), 14)
        ELSE lo1 - PyRound(idx * (lo1 - hi1), 14)

squeeze_index(idx_0_14, lo, hi) ==
    LET idx == clamp_int(idx_0_14, 0, 14)
        lo1 == clamp_int(lo, 0, 14)
        hi1 == clamp_int(hi, 0, 14)
        lo2 == IF lo1 > hi1 THEN hi1 ELSE lo1
        hi2 == IF lo1 > hi1 THEN lo1 ELSE hi1
    IN  IF lo2 = hi2 THEN lo2
        ELSE clamp_int(lo2 + PyRound(idx * (hi2 - lo2), 14), lo2, hi2)

(***************************************************************************)
(* _quantize_to_white_floor (src/main.py 172-179)                          *)
(***************************************************************************)
\* A slip: black notes rounded up to the next white note.
quantize_to_white_ceil(semitone) ==
    IF semitone \in DOMAIN SEMITONE_TO_DEGREE THEN semitone
    ELSE LET above == {i \in 1..Len(DIATONIC_SEMITONES) : DIATONIC_SEMITONES[i] >= semitone}
         IN  IF above = {} THEN 0
             ELSE DIATONIC_SEMITONES[CHOOSE i \in above : \A j \in above : i <= j]

_quantize_to_white_floor(semitone) ==
    IF semitone \in DOMAIN SEMITONE_TO_DEGREE THEN semitone
    ELSE LET below == {i \in 1..Len(DIATONIC_SEMITONES) : DIATONIC_SEMITONES[i] <= semitone}
         IN  \* reversed(): the first hit is the one with the greatest index
             IF below = {} THEN 0
             ELSE DIATONIC_SEMITONES[CHOOSE i \in below : \A j \in below : j <= i]

(***************************************************************************)
(* midi_note_to_key (src/main.py 182-222)                                  *)
(***************************************************************************)
\* A slip: the top octave is not cut off after its C.
midi_note_to_keyWideTop(note, c) ==
    LET d == (note + c.transpose) - c.base_c_midi
        maps == get_keymaps(c.use_windows_map)
        octave == d \div 12
        semitone == d % 12
    IN  IF d < 0 THEN None
        ELSE IF c.use_15_keys THEN
            IF c.chromatic_15 THEN
                IF ~(0 <= d /\ d < 15) THEN None
                ELSE KEYS_15[(IF c.squeeze_enabled
                              THEN squeeze_index(d, c.squeeze_lo, c.squeeze_hi)
                              ELSE d) + 1]
            ELSE
                LET idx == octave * 7 + SEMITONE_TO_DEGREE[_quantize_to_white_floor(semitone)]
                IN  IF ~(0 <= idx /\ idx < 15) THEN None
                    ELSE KEYS_15[(IF c.squeeze_enabled
                                  THEN squeeze_index(idx, c.squeeze_lo, c.squeeze_hi)
                                  ELSE idx) + 1]
        ELSE IF octave = 0 THEN DictGet(maps.LOW, semitone)
        ELSE IF octave = 1 THEN DictGet(maps.MID, semitone)
        ELSE IF octave = 2 THEN DictGet(maps.HIGH, semitone)
        ELSE IF octave = 3 THEN maps.HIGH_PLUS_C
        ELSE None

midi_note_to_key(note, c) ==
    LET d == (note + c.transpose) - c.base_c_midi
        maps == get_keymaps(c.use_windows_map)
        octave == d \div 12
        semitone == d % 12
    IN  IF d < 0 THEN None
        ELSE IF c.use_15_keys THEN
            IF c.chromatic_15 THEN
                \* 15-key chromatic: idx = d
                IF ~(0 <= d /\ d < 15) THEN None
                ELSE KEYS_15[(IF c.squeeze_enabled
                              THEN squeeze_index(d, c.squeeze_lo, c.squeeze_hi)
                              ELSE d) + 1]
            ELSE
                \* 15-key diatonic-only
                LET idx == octave * 7 + SEMITONE_TO_DEGREE[_quantize_to_white_floor(semitone)]
                IN  IF ~(0 <= idx /\ idx < 15) THEN None
                    ELSE KEYS_15[(IF c.squeeze_enabled
                                  THEN squeeze_index(idx, c.squeeze_lo, c.squeeze_hi)
                                  ELSE idx) + 1]
        \* 21-key mode
        ELSE IF octave = 0 THEN DictGet(maps.LOW, semitone)
        ELSE IF octave = 1 THEN DictGet(maps.MID, semitone)
        ELSE IF octave = 2 THEN DictGet(maps.HIGH, semitone)
        ELSE IF octave = 3 /\ semitone = 0 THEN maps.HIGH_PLUS_C
        ELSE None

(***************************************************************************)
(* MIDI messages and the timed list                                        *)
(***************************************************************************)
\* mido.Message / MetaMessage: is_meta is type = "meta"; a meta message has
\* neither note nor velocity (getattr(msg, "velocity", 0) gives 0).
Msg(time, type, note, velocity) ==
    [time |-> time, type |-> type, note |-> note, velocity |-> velocity]

IsNoteOnHit(msg) == msg.type = "note_on" /\ msg.velocity > 0

\* collect_abs_timed_messages (src/main.py 225-233): running sum of msg.time
RECURSIVE AbsTimes(_, _, _)
AbsTimes(mid, i, t) ==
    IF i > Len(mid) THEN <<>>
    ELSE <<[t |-> t + mid[i].time, msg |-> mid[i]]>> \o AbsTimes(mid, i + 1, t + mid[i].time)

collect_abs_timed_messages(mid) == AbsTimes(mid, 1, 0)

\* A slip: the window ends at the last note_off only.
find_trim_windowOffOnly(timed) ==
    IF timed = <<>> THEN [start |-> 0, end |-> 0]
    ELSE
        LET n == Len(timed)
            last_time == timed[n].t
            ons == {i \in 1..n : IsNoteOnHit(timed[i].msg)}
            notes == {i \in 1..n : timed[i].msg.type = "note_off"}
            start == IF ons = {} THEN 0   \* start is None
                     ELSE timed[CHOOSE i \in ons : \A j \in ons : i <= j].t
            end1 == IF notes = {} THEN last_time   \* end is None
                    ELSE timed[CHOOSE i \in notes : \A j \in notes : j <= i].t
        IN  [start |-> start, end |-> IF end1 < start THEN start ELSE end1]

\* find_trim_window (src/main.py 236-260)
find_trim_window(timed) ==
    IF timed = <<>> THEN [start |-> 0, end |-> 0]
    ELSE
        LET n == Len(timed)
            last_time == timed[n].t
            ons == {i \in 1..n : IsNoteOnHit(timed[i].msg)}
            notes == {i \in 1..n : timed[i].msg.type \in {"note_off", "note_on"}}
            \* first hit of the forward loop, first hit of the reversed loop
            start == IF ons = {} THEN 0   \* start is None
                     ELSE timed[CHOOSE i \in ons : \A j \in ons : i <= j].t
            end1 == IF notes = {} THEN last_time   \* end is None
                    ELSE timed[CHOOSE i \in notes : \A j \in notes : j <= i].t
        IN  [start |-> start, end |-> IF end1 < start THEN start ELSE end1]

\* the list comprehension of _play_worker (src/main.py 742)
TrimTo(timed, w) == SelectSeq(timed, LAMBDA e : w.start <= e.t /\ e.t <= w.end)

Abs(x) == IF x < 0 THEN -x ELSE x

\* A slip: < eps instead of <= eps.
RECURSIVE GroupEndStrict(_, _, _, _)
GroupEndStrict(timed, i, t0, eps) ==
    IF i <= Len(timed) /\ Abs(timed[i].t - t0) < eps
    THEN GroupEndStrict(timed, i + 1, t0, eps)
    ELSE i

\* group_by_time (src/main.py 263-275): the inner while loop from index i,
\* giving the first index that does not join the group started at t0
RECURSIVE GroupEnd(_, _, _, _)
GroupEnd(timed, i, t0, eps) ==
    IF i <= Len(timed) /\ Abs(timed[i].t - t0) <= eps
    THEN GroupEnd(timed, i + 1, t0, eps)
    ELSE i

\* the outer while loop from index i: the groups it yields
RECURSIVE GroupsFrom(_, _, _)
GroupsFrom(timed, i, eps) ==
    IF i > Len(timed) THEN <<>>
    ELSE LET t0 == timed[i].t
             j == GroupEnd(timed, i + 1, t0, eps)
         IN  <<[t |-> t0, msgs |-> [k \in 1..(j - i) |-> timed[i + k - 1].msg]]>>
                 \o GroupsFrom(timed, j, eps)

group_by_time(timed, eps) == IF timed = <<>> THEN <<>> ELSE GroupsFrom(timed, 1, eps)

\* eps = 1e-9 s, the default, in millisecond ticks
DefaultEps == 0

(***************************************************************************)
(* The playback worker's helpers (src/main.py 728-821)                     *)
(***************************************************************************)
MIN_UP == 10

Max(a, b) == IF a >= b THEN a ELSE b

\* one posted key event: key-down or key-up of `key`, posted while the thread
\* handled group number grp (0: the release loop after the groups), after the
\* thread had slept `at` ticks in all
KeyEvent(down, key, grp, at) == [down |-> down, key |-> key, grp |-> grp, at |-> at]

\* keys = [k for k in keys if not (k in seen or seen.add(k))]
RECURSIVE Dedupe(_)
Dedupe(keys) ==
    IF keys = <<>> THEN <<>>
    ELSE LET front == Dedupe(SubSeq(keys, 1, Len(keys) - 1))
             k == keys[Len(keys)]
         IN  IF \E i \in 1..Len(front) : front[i] = k THEN front ELSE Append(front, k)

\* the collecting loop of the always-tap branch (src/main.py 767-774)
RECURSIVE CollectKeys(_, _, _)
CollectKeys(msgs, i, c) ==
    IF i > Len(msgs) THEN <<>>
    ELSE LET msg == msgs[i]
             k == midi_note_to_key(msg.note, c)
         IN  (IF msg.type # "meta" /\ IsNoteOnHit(msg) /\ k # None THEN <<k>> ELSE <<>>)
                 \o CollectKeys(msgs, i + 1, c)

\* A slip: the dedupe is missing.
TapKeysNoDedupe(msgs, c) == CollectKeys(msgs, 1, c)

TapKeys(msgs, c) == Dedupe(CollectKeys(msgs, 1, c))

\* key_down: Dict[str, bool], kept in insertion order as a sequence of [k, down]
KdGet(kd, k) == \E i \in 1..Len(kd) : kd[i].k = k /\ kd[i].down

KdSet(kd, k, down) ==
    IF \E i \in 1..Len(kd) : kd[i].k = k
    THEN [i \in 1..Len(kd) |-> IF kd[i].k = k THEN [k |-> k, down |-> down] ELSE kd[i]]
    ELSE Append(kd, [k |-> k, down |-> down])

\* the hold branch for one message (src/main.py 788-809); a is
\* [key_down, ev (events posted), clk]
HoldMsg(a, msg, c, g) ==
    LET k == midi_note_to_key(msg.note, c)
    IN  IF msg.type = "meta" THEN a
        ELSE IF IsNoteOnHit(msg) THEN
            IF k = None THEN a
            ELSE IF KdGet(a.key_down, k)
            THEN [key_down |-> KdSet(a.key_down, k, TRUE),
                  ev |-> a.ev \o <<KeyEvent(FALSE, k, g, a.clk),
                                   KeyEvent(TRUE, k, g, a.clk + MIN_UP)>>,
                  clk |-> a.clk + MIN_UP]
            ELSE [key_down |-> KdSet(a.key_down, k, TRUE),
                  ev |-> Append(a.ev, KeyEvent(TRUE, k, g, a.clk)),
                  clk |-> a.clk]
        ELSE IF msg.type = "note_off" \/ (msg.type = "note_on" /\ msg.velocity = 0) THEN
            IF k = None THEN a
            ELSE IF KdGet(a.key_down, k)
            THEN [key_down |-> KdSet(a.key_down, k, FALSE),
                  ev |-> Append(a.ev, KeyEvent(FALSE, k, g, a.clk)),
                  clk |-> a.clk]
            ELSE a
        ELSE a

RECURSIVE HoldMsgs(_, _, _, _, _)
HoldMsgs(a, msgs, i, c, g) ==
    IF i > Len(msgs) THEN a ELSE HoldMsgs(HoldMsg(a, msgs[i], c, g), msgs, i + 1, c, g)

\* for k, down in list(key_down.items()): if down: kb.release(k)  (811-813)
RECURSIVE ReleaseHeld(_, _, _)
ReleaseHeld(kd, i, at) ==
    IF i > Len(kd) THEN <<>>
    ELSE (IF kd[i].down THEN <<KeyEvent(FALSE, kd[i].k, 0, at)>> ELSE <<>>)
             \o ReleaseHeld(kd, i + 1, at)

\* dt = (t - prev_t) / max(self.cfg.speed, 1e-6); the speed is the fraction
\* num/den, always above 1e-6 here
ScaledDelay(t, prev_t, speed) == ((t - prev_t) * speed.den) \div speed.num

\* the file outside APP_DIR is there and holds no message
OutsideFile == [exists |-> TRUE, mid |-> <<>>]

FileAt(p) == IF p = OutsidePath THEN OutsideFile ELSE disk[p]

\* Path(p).exists(); Path("") is the current directory
PathExists(p) == IF p = NoPath THEN TRUE ELSE FileAt(p).exists
\* mido.MidiFile(path) reads the file, and raises when there is none
Readable(p) == p # NoPath /\ FileAt(p).exists

(***************************************************************************)
(* Bounds and input sets                                                   *)
(***************************************************************************)
MaxWorkers == 2
MaxImports == 2

Workers == 1..MaxWorkers

\* cfg0 is history: self.cfg as play() left it when it started the thread,
\* forgotten (Config) when the thread has ended
Unborn == [pc |-> "unborn", midi_path |-> NoPath, groups |-> <<>>, gi |-> 0, prev_t |-> 0,
           tap_seconds |-> 0, key_down |-> <<>>, keys |-> <<>>, clk |-> 0, cfg0 |-> Config]

Alive(w) == workers[w].pc \notin {"unborn", "done"}

\* the tk variables after _build_ui (src/main.py 527-543)
UiDefaults ==
    [base_c |-> 48, transpose |-> 0, speed |-> [num |-> 1, den |-> 1], lead_in |-> 2000,
     trim_silence |-> TRUE, always_tap |-> TRUE, tap_ms |-> 18,
     use_windows_map |-> FALSE, use_15_keys |-> FALSE, chromatic_15 |-> TRUE,
     squeeze_enabled |-> FALSE, squeeze_lo |-> 3, squeeze_hi |-> 11]

\* the values the sliders and check boxes are moved between
UiChoices ==
    {<<"speed", [num |-> 1, den |-> 1]>>, <<"speed", [num |-> 1, den |-> 2]>>,
     <<"always_tap", TRUE>>, <<"always_tap", FALSE>>}

\* the files the user may pick: silence, then up to MaxGroups chords
\* (messages of one timestamp) one tick apart.  With the default base C 48,
\* note 60 is 'z', 62 is 'x' and 40 lies below the keyboard.
MaxGroups == 2

Chords ==
    {<<Msg(1, "note_on", 60, 64), Msg(0, "note_on", 60, 64), Msg(0, "note_on", 62, 64)>>,
     <<Msg(1, "meta", 0, 0), Msg(0, "note_on", 40, 64), Msg(0, "note_off", 60, 0),
       Msg(0, "note_on", 62, 0)>>,
     <<Msg(1, "note_on", 62, 64), Msg(0, "note_on", 60, 64)>>}

RECURSIVE Concat(_)
Concat(ss) == IF ss = <<>> THEN <<>> ELSE Head(ss) \o Concat(Tail(ss))

Files == {Concat(cs) : cs \in UNION {[1..n -> Chords] : n \in 0..MaxGroups}}

(***************************************************************************)
(* The pure functions under test keep these values while the app runs      *)
(***************************************************************************)
SqIdle == [lo |-> 0, hi |-> 0, idx |-> 0, out |-> 0, pidx |-> 0, pout |-> 0, calls |-> 0]
KmIdle == [c |-> Config, note |-> 0, key |-> None, pnote |-> 0, pkey |-> None, calls |-> 0]
PipeIdle == [stage |-> "idle", mid |-> <<>>, trim |-> FALSE, eps |-> 0,
             timed |-> <<>>, window |-> [start |-> 0, end |-> 0], kept |-> <<>>,
             groups |-> <<>>]

(***************************************************************************)
(* The pixel-art drawer (src/drawing/main.py): its state after __init__    *)
(***************************************************************************)
MaxDrawers == 2

\* the number in res_entry: the preview is DrawRes x DrawRes pixels
DrawRes == 2

\* pyautogui.size()
screen_w == 3
screen_h == 3

Drawers == 1..MaxDrawers

Point(x, y) == [x |-> x, y |-> y]

Grid == {Point(x, y) : x \in 0..(DrawRes - 1), y \in 0..(DrawRes - 1)}

\* a draw thread before threading.Thread(target=self.draw_loop) makes it;
\* visited counts the pixels the inner loop has looked at, status is the text
\* the thread wrote into status_lbl when it finished ("" when it did not)
DrawUnborn == [pc |-> "unborn", pixels |-> {}, origin |-> Point(0, 0), x |-> 0, y |-> 0,
               at |-> Point(0, 0), count |-> 0, visited |-> 0, status |-> ""]

\* PixelArtGridDrawer.__init__ (lines 37-104).  A field that is None has its
\* flag FALSE; stage "unset" is the attribute not being there yet.  Points
\* are in screen pixels, cell is the distance of the grid corners, to be
\* divided by DrawRes - 1.
DrawerInit ==
    [has_original |-> FALSE, original_img |-> [p \in Grid |-> 255],
     has_preview |-> FALSE, preview_img |-> {},
     stage |-> "unset",
     has_tl |-> FALSE, tl |-> Point(0, 0), br |-> Point(0, 0),
     cell |-> Point(0, 0), center |-> Point(0, 0),
     status_lbl |-> "Load an image to begin",
     btn_tl |-> "disabled", btn_br |-> "disabled", btn_center |-> "disabled",
     draw_btn |-> "disabled", stop_btn |-> "disabled",
     delay_entry |-> "0.0"]

NoMark == [set |-> FALSE, clicks |-> 0, visited |-> 0]

DrawIdle ==
    /\ STOP_FLAG = FALSE /\ DRAW_THREAD = 0
    /\ app = DrawerInit
    /\ draw_threads = [w \in Drawers |-> DrawUnborn]
    /\ clicks = [w \in Drawers |-> <<>>]
    /\ draw_mark = [w \in Drawers |-> NoMark]

drawVars == <<STOP_FLAG, DRAW_THREAD, app, draw_threads, clicks, draw_mark>>

\* no presets file, nothing typed, no dialog shown
PresetIdle ==
    /\ presets = <<>> /\ presets_file = <<>>
    /\ preset_var = "" /\ preset_name_var = ""
    /\ msgbox = None /\ saved = <<>>

AppIdle ==
    /\ source = <<>> /\ disk = <<>> /\ ui = UiDefaults /\ cfg = Config
    /\ stop_event = FALSE /\ play_thread = 0
    /\ workers = [w \in Workers |-> Unborn] /\ kb = [w \in Workers |-> <<>>]
    /\ ui_pc = "idle" /\ after_q = <<>>
    /\ play_btn = "disabled" /\ stop_btn = "disabled"
    /\ log = {} /\ stop_mark = [w \in Workers |-> -1]
    /\ PresetIdle /\ DrawIdle

presetVars == <<presets, presets_file, preset_var, preset_name_var, msgbox, saved>>
appVars == <<source, disk, ui, cfg, stop_event, play_thread, workers, kb,
             ui_pc, after_q, play_btn, stop_btn, log, stop_mark, presetVars>>
fnVars == <<sq, km, pipe>>

(***************************************************************************)
(* The app: state after App.__init__ with no presets file                  *)
(***************************************************************************)
Init ==
    /\ sq = SqIdle /\ km = KmIdle /\ pipe = PipeIdle
    /\ source \in Files
    /\ disk = <<>> /\ ui = UiDefaults /\ cfg = Config
    /\ stop_event = FALSE /\ play_thread = 0
    /\ workers = [w \in Workers |-> Unborn] /\ kb = [w \in Workers |-> <<>>]
    /\ ui_pc = "idle" /\ after_q = <<>>
    /\ play_btn = "disabled" /\ stop_btn = "disabled"
    /\ log = {} /\ stop_mark = [w \in Workers |-> -1]
    /\ PresetIdle /\ DrawIdle

\* self._log(s) from the UI thread
UiLog(text) == log \cup {[w |-> 0, text |-> text]}

\* the group a running thread is committed to: the one it sleeps for or
\* emits; 0 before the first check of the stop event; -1 when it does not run
Committed(wr) ==
    IF wr.pc \in {"start", "lead_in"} THEN 0
    ELSE IF wr.pc = "loop" THEN wr.gi - 1
    ELSE IF wr.pc \in {"emit", "tap_sleep"} THEN wr.gi
    ELSE -1

MarkStop == [w \in Workers |-> IF stop_mark[w] >= 0 THEN stop_mark[w]
                               ELSE Committed(workers[w])]

\* choose_midi (src/main.py 652-667): the dialog gave a path and the copy
\* into storage worked; _unique_dest gives the copy a fresh name
choose_midi ==
    /\ ui_pc = "idle"
    /\ Len(disk) < MaxImports
    /\ disk' = Append(disk, [exists |-> TRUE, mid |-> source])
    /\ cfg' = [cfg EXCEPT !.midi_path = Len(disk) + 1]
    /\ play_btn' = "normal"
    /\ UNCHANGED <<fnVars, drawVars, presetVars, source, ui, stop_event, play_thread, workers, kb, ui_pc,
                   after_q, stop_btn, log, stop_mark>>

\* the user moves a slider, ticks a check box or types into a spin box
\* (src/main.py 545-628): one tk variable gets one of the values of choices
SetTo(choices) ==
    /\ ui_pc = "idle"
    /\ \E ch \in choices :
        /\ ui[ch[1]] # ch[2]
        /\ ui' = [ui EXCEPT ![ch[1]] = ch[2]]
    /\ UNCHANGED <<fnVars, drawVars, presetVars, source, disk, cfg, stop_event, play_thread, workers, kb,
                   ui_pc, after_q, play_btn, stop_btn, log, stop_mark>>

SetSetting == SetTo(UiChoices)

\* play(), "snapshot settings" (src/main.py 694-712)
Snapshot(c, u) ==
    LET lo == clamp_int(u.squeeze_lo, 0, 14)
        hi == clamp_int(u.squeeze_hi, 0, 14)
    IN  [c EXCEPT !.base_c_midi = u.base_c, !.transpose = u.transpose, !.speed = u.speed,
                  !.lead_in = u.lead_in, !.trim_silence = u.trim_silence,
                  !.always_tap = u.always_tap, !.tap_ms = u.tap_ms,
                  !.use_windows_map = u.use_windows_map, !.use_15_keys = u.use_15_keys,
                  !.chromatic_15 = u.chromatic_15, !.squeeze_enabled = u.squeeze_enabled,
                  !.squeeze_lo = IF lo > hi THEN hi ELSE lo,
                  !.squeeze_hi = IF lo > hi THEN lo ELSE hi]

Born == {w \in Workers : workers[w].pc # "unborn"}

\* play(), lines 718-722: clear the stop event, flip the buttons, start a thread
StartThread(c) ==
    LET w == Cardinality(Born) + 1
    IN  /\ stop_event' = FALSE
        /\ stop_mark' = [x \in Workers |-> -1]
        /\ play_btn' = "disabled"
        /\ stop_btn' = "normal"
        /\ play_thread' = w
        /\ workers' = [workers EXCEPT ![w].pc = "start", ![w].cfg0 = c]

\* play() (src/main.py 689-722) when no earlier thread is alive
play ==
    /\ ui_pc = "idle"
    /\ play_btn = "normal"
    /\ cfg.midi_path # NoPath
    /\ Cardinality(Born) < MaxWorkers
    /\ ~(play_thread # 0 /\ Alive(play_thread))
    /\ cfg' = Snapshot(cfg, ui)
    /\ StartThread(Snapshot(cfg, ui))
    /\ UNCHANGED <<fnVars, drawVars, presetVars, source, disk, ui, kb, ui_pc, after_q, log>>

\* play() when self._play_thread is alive: snapshot, set the stop event and
\* sleep 0.05 s on the UI thread (lines 694-716)
play_stop_old ==
    /\ ui_pc = "idle"
    /\ play_btn = "normal"
    /\ cfg.midi_path # NoPath
    /\ Cardinality(Born) < MaxWorkers
    /\ play_thread # 0 /\ Alive(play_thread)
    /\ cfg' = Snapshot(cfg, ui)
    /\ stop_event' = TRUE
    /\ stop_mark' = MarkStop
    /\ ui_pc' = "play_sleep"
    /\ UNCHANGED <<fnVars, drawVars, presetVars, source, disk, ui, play_thread, workers, kb, after_q,
                   play_btn, stop_btn, log>>

\* ... and the rest of play() after the sleep (lines 718-722)
play_resume ==
    /\ ui_pc = "play_sleep"
    /\ ui_pc' = "idle"
    /\ StartThread(cfg)
    /\ UNCHANGED <<fnVars, drawVars, presetVars, source, disk, ui, cfg, kb, after_q, log>>

\* stop() (src/main.py 724-726)
stop ==
    /\ ui_pc = "idle"
    /\ stop_btn = "normal"
    /\ stop_event' = TRUE
    /\ stop_mark' = MarkStop
    /\ log' = UiLog("Stop requested.")
    /\ UNCHANGED <<fnVars, drawVars, presetVars, source, disk, ui, cfg, play_thread, workers, kb, ui_pc,
                   after_q, play_btn, stop_btn>>

(***************************************************************************)
(* _play_worker (src/main.py 728-821), thread w                            *)
(***************************************************************************)
Cb(fn, w, text) == [fn |-> fn, w |-> w, text |-> text]

\* A slip: the finally block forgets the Stop button.
FinallyPlayOnly(w) == <<Cb("play_btn", w, "")>>

\* the finally block: two callbacks for the UI thread (lines 819-821)
Finally(w) == <<Cb("play_btn", w, ""), Cb("stop_btn", w, "")>>

\* lines 730-736: read cfg.midi_path, check the file, start the lead-in sleep
W_Start(w) ==
    /\ workers[w].pc = "start"
    /\ IF ~PathExists(cfg.midi_path)
       THEN /\ workers' = [workers EXCEPT ![w].pc = "done", ![w].cfg0 = Config,
                                          ![w].midi_path = cfg.midi_path]
            /\ after_q' = after_q \o <<Cb("log", w, "ERROR")>> \o Finally(w)
       ELSE /\ workers' = [workers EXCEPT ![w].pc = "lead_in",
                                          ![w].midi_path = cfg.midi_path,
                                          ![w].clk = cfg.lead_in]
            /\ after_q' = after_q
    /\ UNCHANGED <<fnVars, drawVars, presetVars, source, disk, ui, cfg, stop_event, play_thread, kb, ui_pc,
                   play_btn, stop_btn, log, stop_mark>>

\* lines 738-755: after the lead-in, load, trim and group the file
W_Load(w) ==
    LET wr == workers[w]
        timed0 == collect_abs_timed_messages(FileAt(wr.midi_path).mid)
        trims == cfg.trim_silence /\ timed0 # <<>>
        timed == IF trims THEN TrimTo(timed0, find_trim_window(timed0)) ELSE timed0
        groups == group_by_time(timed, DefaultEps)
    IN  /\ wr.pc = "lead_in"
        /\ IF ~Readable(wr.midi_path)
           THEN \* mido.MidiFile raises: the except branch (lines 815-816).  Its
                \* lambda reads e, which Python unbinds when the except block
                \* ends, before the UI thread runs the lambda
                /\ workers' = [workers EXCEPT ![w].pc = "done", ![w].cfg0 = Config]
                /\ after_q' = after_q \o <<Cb("log", w, "NameError")>> \o Finally(w)
           ELSE IF timed = <<>>
           THEN /\ workers' = [workers EXCEPT ![w].pc = "done", ![w].cfg0 = Config]
                /\ after_q' = after_q \o <<Cb("log", w, "No messages to play")>>
                                        \o Finally(w)
           ELSE /\ workers' = [workers EXCEPT ![w].pc = "loop",
                                              ![w].groups = groups,
                                              ![w].gi = 1,
                                              ![w].prev_t = groups[1].t,
                                              ![w].tap_seconds = Max(1, cfg.tap_ms),
                                              ![w].key_down = <<>>]
                /\ after_q' = after_q
        /\ UNCHANGED <<fnVars, drawVars, presetVars, source, disk, ui, cfg, stop_event, play_thread, kb, ui_pc,
                       play_btn, stop_btn, log, stop_mark>>

\* A slip: the loop never looks at the stop event.
StopIgnored == FALSE

\* if self._stop_event.is_set(): break  (line 758)
StopIsSet == stop_event

\* the top of the for loop (lines 757-764): the loop ends, or the stop event
\* breaks it, or the thread sleeps for the scaled delay to this group.  After
\* the loop: release what is held, queue the last log line, finally (811-821).
W_Loop(w) ==
    LET wr == workers[w]
        dt == ScaledDelay(wr.groups[wr.gi].t, wr.prev_t, cfg.speed)
    IN  /\ wr.pc = "loop"
        /\ IF wr.gi > Len(wr.groups) \/ StopIsSet
           THEN /\ workers' = [workers EXCEPT ![w].pc = "done", ![w].cfg0 = Config]
                /\ kb' = [kb EXCEPT ![w] = @ \o ReleaseHeld(wr.key_down, 1, wr.clk)]
                /\ after_q' = after_q \o <<Cb("log", w, "final")>> \o Finally(w)
           ELSE /\ workers' = [workers EXCEPT ![w].pc = "emit",
                                              ![w].clk = IF dt > 0 THEN @ + dt ELSE @,
                                              ![w].prev_t = wr.groups[wr.gi].t]
                /\ UNCHANGED <<kb, after_q>>
        /\ UNCHANGED <<fnVars, drawVars, presetVars, source, disk, ui, cfg, stop_event, play_thread, ui_pc,
                       play_btn, stop_btn, log, stop_mark>>

\* the always-tap branch up to time.sleep(tap_seconds) (lines 766-783)
W_TapPress(w) ==
    LET wr == workers[w]
        keys == TapKeys(wr.groups[wr.gi].msgs, cfg)
    IN  /\ wr.pc = "emit"
        /\ cfg.always_tap
        /\ kb' = [kb EXCEPT ![w] = @ \o [i \in 1..Len(keys) |->
                                            KeyEvent(TRUE, keys[i], wr.gi, wr.clk)]]
        /\ workers' = IF keys # <<>>
                      THEN [workers EXCEPT ![w].pc = "tap_sleep", ![w].keys = keys,
                                           ![w].clk = @ + wr.tap_seconds]
                      ELSE [workers EXCEPT ![w].pc = "loop", ![w].gi = @ + 1]
        /\ UNCHANGED <<fnVars, drawVars, presetVars, source, disk, ui, cfg, stop_event, play_thread, ui_pc,
                       after_q, play_btn, stop_btn, log, stop_mark>>

\* ... and the releases after the sleep (lines 784-785)
W_TapRelease(w) ==
    LET wr == workers[w]
    IN  /\ wr.pc = "tap_sleep"
        /\ kb' = [kb EXCEPT ![w] = @ \o [i \in 1..Len(wr.keys) |->
                                            KeyEvent(FALSE, wr.keys[i], wr.gi, wr.clk)]]
        /\ workers' = [workers EXCEPT ![w].pc = "loop", ![w].gi = @ + 1, ![w].keys = <<>>]
        /\ UNCHANGED <<fnVars, drawVars, presetVars, source, disk, ui, cfg, stop_event, play_thread, ui_pc,
                       after_q, play_btn, stop_btn, log, stop_mark>>

\* the hold branch for the whole group (lines 787-809)
W_Hold(w) ==
    LET wr == workers[w]
        a == HoldMsgs([key_down |-> wr.key_down, ev |-> <<>>, clk |-> wr.clk],
                      wr.groups[wr.gi].msgs, 1, cfg, wr.gi)
    IN  /\ wr.pc = "emit"
        /\ ~cfg.always_tap
        /\ kb' = [kb EXCEPT ![w] = @ \o a.ev]
        /\ workers' = [workers EXCEPT ![w].pc = "loop", ![w].gi = @ + 1,
                                      ![w].key_down = a.key_down, ![w].clk = a.clk]
        /\ UNCHANGED <<fnVars, drawVars, presetVars, source, disk, ui, cfg, stop_event, play_thread, ui_pc,
                       after_q, play_btn, stop_btn, log, stop_mark>>

\* the UI thread runs the next callback queued with after(0, fn); the lambdas
\* read self._stop_event and self.cfg when they run; the one of the except
\* branch raises NameError inside the event loop and logs nothing
RunCallback ==
    /\ ui_pc = "idle"
    /\ after_q # <<>>
    /\ LET cb == Head(after_q)
       IN  /\ after_q' = Tail(after_q)
           /\ log' = IF cb.fn = "log" /\ cb.text # "NameError"
                     THEN log \cup {[w |-> cb.w,
                                     text |-> IF cb.text = "final"
                                              THEN (IF stop_event THEN "Stopped." ELSE "Done.")
                                              ELSE cb.text]}
                     ELSE log
           /\ play_btn' = IF cb.fn = "play_btn"
                          THEN (IF cfg.midi_path # NoPath THEN "normal" ELSE "disabled")
                          ELSE play_btn
           /\ stop_btn' = IF cb.fn = "stop_btn" THEN "disabled" ELSE stop_btn
    /\ UNCHANGED <<fnVars, drawVars, presetVars, source, disk, ui, cfg, stop_event, play_thread, workers, kb,
                   ui_pc, stop_mark>>

Next ==
    \/ choose_midi
    \/ SetSetting
    \/ play
    \/ play_stop_old
    \/ play_resume
    \/ stop
    \/ RunCallback
    \/ \E w \in Workers : W_Start(w)
    \/ \E w \in Workers : W_Load(w)
    \/ \E w \in Workers : W_Loop(w)
    \/ \E w \in Workers : W_TapPress(w)
    \/ \E w \in Workers : W_TapRelease(w)
    \/ \E w \in Workers : W_Hold(w)

Spec == Init /\ [][Next]_vars

(***************************************************************************)
(* squeeze_index on its own: any bounds, then calls with any index         *)
(***************************************************************************)
SqBounds == -1..15
SqIndexes == -2..16

InitSqueeze ==
    /\ \E lo \in SqBounds, hi \in SqBounds : sq = [SqIdle EXCEPT !.lo = lo, !.hi = hi]
    /\ km = KmIdle /\ pipe = PipeIdle /\ AppIdle

SqueezeCall ==
    /\ \E i \in SqIndexes :
        sq' = [sq EXCEPT !.idx = i, !.out = squeeze_index(i, sq.lo, sq.hi),
                         !.pidx = sq.idx, !.pout = sq.out,
                         !.calls = IF sq.calls < 2 THEN sq.calls + 1 ELSE 2]
    /\ UNCHANGED <<km, pipe, appVars, drawVars>>

NextSqueeze == SqueezeCall

SpecSqueeze == InitSqueeze /\ [][NextSqueeze]_vars

(***************************************************************************)
(* midi_note_to_key on its own: any layout, then calls with any note       *)
(***************************************************************************)
KeyNotes == 46..88

KeyConfigs ==
    {[Config EXCEPT !.base_c_midi = b, !.transpose = t, !.use_windows_map = win,
                    !.use_15_keys = k15, !.chromatic_15 = chrom, !.squeeze_enabled = sqz] :
        b \in {48, 49}, t \in {-1, 0, 1}, win \in BOOLEAN, k15 \in BOOLEAN,
        chrom \in BOOLEAN, sqz \in BOOLEAN}

InitKey ==
    /\ \E c \in KeyConfigs : km = [KmIdle EXCEPT !.c = c]
    /\ sq = SqIdle /\ pipe = PipeIdle /\ AppIdle

KeyCall ==
    /\ \E n \in KeyNotes :
        km' = [km EXCEPT !.note = n, !.key = midi_note_to_key(n, km.c),
                         !.pnote = km.note, !.pkey = km.key,
                         !.calls = IF km.calls < 2 THEN km.calls + 1 ELSE 2]
    /\ UNCHANGED <<sq, pipe, appVars, drawVars>>

NextKey == KeyCall

SpecKey == InitKey /\ [][NextKey]_vars

(***************************************************************************)
(* The load pipeline of _play_worker (lines 738-749) on its own: any file  *)
(* of up to MaxMsgs messages, trim on or off                               *)
(***************************************************************************)
MaxMsgs == 3
MaxDelta == 2

PipeMsgs ==
    {Msg(d, "note_on", n, 64) : d \in 0..MaxDelta, n \in {60, 62}}
        \cup {Msg(d, "note_on", 60, 0) : d \in 0..MaxDelta}
        \cup {Msg(d, "note_off", 60, 0) : d \in 0..MaxDelta}
        \cup {Msg(d, "meta", 0, 0) : d \in 0..MaxDelta}

PipeFiles == UNION {[1..n -> PipeMsgs] : n \in 0..MaxMsgs}

InitPipe ==
    /\ \E mid \in PipeFiles, trim \in BOOLEAN, eps \in {0, 1} :
        pipe = [PipeIdle EXCEPT !.stage = "file", !.mid = mid, !.trim = trim, !.eps = eps]
    /\ sq = SqIdle /\ km = KmIdle /\ AppIdle

\* timed = collect_abs_timed_messages(midi_path)
P_Collect ==
    /\ pipe.stage = "file"
    /\ pipe' = [pipe EXCEPT !.stage = "timed", !.timed = collect_abs_timed_messages(pipe.mid)]
    /\ UNCHANGED <<sq, km, appVars, drawVars>>

\* if self.cfg.trim_silence and timed: ... (lines 740-743)
P_Trim ==
    /\ pipe.stage = "timed"
    /\ pipe' = IF pipe.trim /\ pipe.timed # <<>>
               THEN [pipe EXCEPT !.stage = "trimmed",
                                 !.window = find_trim_window(pipe.timed),
                                 !.kept = TrimTo(pipe.timed, find_trim_window(pipe.timed))]
               ELSE [pipe EXCEPT !.stage = "trimmed", !.kept = pipe.timed]
    /\ UNCHANGED <<sq, km, appVars, drawVars>>

\* groups = list(group_by_time(timed))
P_Group ==
    /\ pipe.stage = "trimmed"
    /\ pipe' = [pipe EXCEPT !.stage = "grouped", !.groups = group_by_time(pipe.kept, pipe.eps)]
    /\ UNCHANGED <<sq, km, appVars, drawVars>>

NextPipe == P_Collect \/ P_Trim \/ P_Group

SpecPipe == InitPipe /\ [][NextPipe]_vars

(***************************************************************************)
(* Presets (src/main.py 313-436)                                           *)
(***************************************************************************)
\* the texts typed into the "Preset name" entry
TypedNames == {"", " ", " a "}

\* str.strip() on the texts above and on the preset names
Strip(text) == CASE text = " " -> "" [] text = " a " -> "a" [] OTHER -> text

\* sorted(self.presets.keys(), key=str.lower) over the names there are
NameOrder == <<"a", "x">>

Names(P) == DOMAIN P

\* names[0] of _refresh_presets_dropdown
FirstName(P) ==
    NameOrder[CHOOSE i \in 1..Len(NameOrder) :
                 /\ NameOrder[i] \in Names(P)
                 /\ \A j \in 1..(i - 1) : NameOrder[j] \notin Names(P)]

\* self.presets[name] = value
Put(P, name, value) == [n \in Names(P) \cup {name} |-> IF n = name THEN value ELSE P[n]]

\* str(stored_path.relative_to(APP_DIR)): the path below APP_DIR, "midis/<file>"
RelativeTo(p) == [abs |-> FALSE, dir |-> "midis", file |-> p]

\* (APP_DIR / rel).resolve(): an absolute rel replaces APP_DIR
Resolve(rel) == IF rel.abs THEN OutsidePath ELSE rel.file

\* A slip: the squeeze bounds are stored as typed.
PresetOfRaw(u, p) ==
    [midi_relpath |-> RelativeTo(p), base_c_midi |-> u.base_c, transpose |-> u.transpose,
     speed |-> u.speed, lead_in |-> u.lead_in, trim_silence |-> u.trim_silence,
     always_tap |-> u.always_tap, tap_ms |-> u.tap_ms,
     use_windows_map |-> u.use_windows_map, use_15_keys |-> u.use_15_keys,
     chromatic_15 |-> u.chromatic_15, squeeze_enabled |-> u.squeeze_enabled,
     squeeze_lo |-> u.squeeze_lo, squeeze_hi |-> u.squeeze_hi]

\* the dict save_preset stores (lines 364-385), squeeze bounds sanitized
PresetOf(u, p) ==
    LET lo == clamp_int(u.squeeze_lo, 0, 14)
        hi == clamp_int(u.squeeze_hi, 0, 14)
    IN  [midi_relpath |-> RelativeTo(p), base_c_midi |-> u.base_c, transpose |-> u.transpose,
         speed |-> u.speed, lead_in |-> u.lead_in, trim_silence |-> u.trim_silence,
         always_tap |-> u.always_tap, tap_ms |-> u.tap_ms,
         use_windows_map |-> u.use_windows_map, use_15_keys |-> u.use_15_keys,
         chromatic_15 |-> u.chromatic_15, squeeze_enabled |-> u.squeeze_enabled,
         squeeze_lo |-> IF lo > hi THEN hi ELSE lo,
         squeeze_hi |-> IF lo > hi THEN lo ELSE hi]

\* the tk variables as apply_preset sets them from a preset (lines 405-418)
PresetUi(preset) ==
    [base_c |-> preset.base_c_midi, transpose |-> preset.transpose, speed |-> preset.speed,
     lead_in |-> preset.lead_in, trim_silence |-> preset.trim_silence,
     always_tap |-> preset.always_tap, tap_ms |-> preset.tap_ms,
     use_windows_map |-> preset.use_windows_map, use_15_keys |-> preset.use_15_keys,
     chromatic_15 |-> preset.chromatic_15, squeeze_enabled |-> preset.squeeze_enabled,
     squeeze_lo |-> preset.squeeze_lo, squeeze_hi |-> preset.squeeze_hi]

\* what apply_preset (lines 393-436) does with the presets P when the combo
\* box shows pv
ApplyPreset(P, pv) ==
    LET name == Strip(pv)
        preset == P[name]
        midi_path == Resolve(preset.midi_relpath)
        alive == play_thread # 0 /\ Alive(play_thread)
    IN  IF name = "" \/ name \notin Names(P)
        THEN UNCHANGED <<ui, cfg, play_btn, preset_name_var, stop_event, stop_mark>>
        ELSE /\ stop_event' = (stop_event \/ alive)
             /\ stop_mark' = IF alive THEN MarkStop ELSE stop_mark
             /\ ui' = PresetUi(preset)
             /\ IF ~FileAt(midi_path).exists
                THEN /\ cfg' = [cfg EXCEPT !.midi_path = NoPath]
                     /\ play_btn' = "disabled"
                     /\ preset_name_var' = preset_name_var
                ELSE /\ cfg' = [cfg EXCEPT !.midi_path = midi_path]
                     /\ play_btn' = "normal"
                     /\ preset_name_var' = name

\* the user picks a name in the combo box: <<ComboboxSelected>> -> apply_preset
apply_preset ==
    /\ ui_pc = "idle"
    /\ \E n \in Names(presets) :
        /\ preset_var' = n
        /\ ApplyPreset(presets, n)
    /\ UNCHANGED <<fnVars, drawVars, source, disk, play_thread, workers, kb, ui_pc, after_q,
                   stop_btn, log, presets, presets_file, msgbox, saved>>

\* messagebox.showerror(title, ...) and return
ShowError(title) ==
    /\ msgbox' = title
    /\ UNCHANGED <<ui, cfg, play_btn, preset_name_var, stop_event, stop_mark,
                   presets, presets_file, preset_var, saved>>

\* A slip: a missing MIDI file does not keep save_preset from saving.
MidiMissingNever(p) == FALSE

\* not stored_path.exists()  (line 348)
MidiMissing(p) == ~PathExists(p)

\* save_preset (lines 340-391), with _save_presets and
\* _refresh_presets_dropdown, which applies names[0] when the combo box
\* shows none of the names
save_preset ==
    LET name == Strip(preset_name_var)
        P == Put(presets, name, PresetOf(ui, cfg.midi_path))
    IN  /\ ui_pc = "idle"
        /\ IF name = "" THEN ShowError("Missing name")
           ELSE IF cfg.midi_path = NoPath THEN ShowError("No MIDI")
           ELSE IF MidiMissing(cfg.midi_path) THEN ShowError("Missing MIDI")
           ELSE IF cfg.midi_path = OutsidePath THEN ShowError("MIDI not imported")
           ELSE /\ presets' = P
                /\ presets_file' = P
                /\ saved' = Put(saved, name, [ui |-> ui, midi_path |-> cfg.midi_path])
                /\ IF preset_var \notin Names(P)
                   THEN ApplyPreset(P, FirstName(P))
                   ELSE UNCHANGED <<ui, cfg, play_btn, preset_name_var, stop_event,
                                    stop_mark>>
                /\ preset_var' = name
                /\ msgbox' = msgbox
        /\ UNCHANGED <<fnVars, drawVars, source, disk, play_thread, workers, kb, ui_pc, after_q,
                       stop_btn, log>>

\* the user types into the "Preset name" entry
TypeName ==
    /\ ui_pc = "idle"
    /\ \E text \in TypedNames :
        /\ text # preset_name_var
        /\ preset_name_var' = text
    /\ UNCHANGED <<fnVars, drawVars, source, disk, ui, cfg, stop_event, play_thread, workers, kb,
                   ui_pc, after_q, play_btn, stop_btn, log, stop_mark,
                   presets, presets_file, preset_var, msgbox, saved>>

\* the values the controls are moved between here: the speed slider, and
\* the squeeze lo spin box (lines 616-620), which counts 0..14 but takes any
\* typed number
PresetChoices ==
    {<<"speed", [num |-> 1, den |-> 1]>>, <<"speed", [num |-> 1, den |-> 2]>>,
     <<"squeeze_lo", 3>>, <<"squeeze_lo", 16>>}

SetPresetSetting == SetTo(PresetChoices)

\* somebody deletes a stored MIDI file from the midis folder
RemoveMidi ==
    /\ \E i \in 1..Len(disk) :
        /\ disk[i].exists
        /\ disk' = [disk EXCEPT ![i].exists = FALSE]
    /\ UNCHANGED <<fnVars, drawVars, presetVars, source, ui, cfg, stop_event, play_thread, workers,
                   kb, ui_pc, after_q, play_btn, stop_btn, log, stop_mark>>

\* a presets.json written by hand: one preset, its MIDI an absolute path
\* outside APP_DIR, every other key there with a value of its own
FilePresets ==
    [n \in {"x"} |->
        [midi_relpath |-> [abs |-> TRUE, dir |-> "/", file |-> 0],
         base_c_midi |-> 60, transpose |-> 1, speed |-> [num |-> 1, den |-> 2],
         lead_in |-> 0, trim_silence |-> FALSE, always_tap |-> FALSE, tap_ms |-> 30,
         use_windows_map |-> TRUE, use_15_keys |-> TRUE, chromatic_15 |-> FALSE,
         squeeze_enabled |-> TRUE, squeeze_lo |-> 2, squeeze_hi |-> 9]]

\* the one file the user imports here
PresetSource == <<Msg(1, "note_on", 60, 64)>>

\* App.__init__ (lines 279-293): without presets.json, or with the one above,
\* which _refresh_presets_dropdown then applies
InitPreset ==
    /\ sq = SqIdle /\ km = KmIdle /\ pipe = PipeIdle
    /\ source = PresetSource /\ disk = <<>>
    /\ stop_event = FALSE /\ play_thread = 0
    /\ workers = [w \in Workers |-> Unborn] /\ kb = [w \in Workers |-> <<>>]
    /\ ui_pc = "idle" /\ after_q = <<>> /\ stop_btn = "disabled"
    /\ log = {} /\ stop_mark = [w \in Workers |-> -1]
    /\ msgbox = None /\ saved = <<>> /\ DrawIdle
    /\ \/ /\ presets = <<>> /\ presets_file = <<>>
          /\ preset_var = "" /\ preset_name_var = ""
          /\ ui = UiDefaults /\ cfg = Config /\ play_btn = "disabled"
       \/ /\ presets = FilePresets /\ presets_file = FilePresets
          /\ preset_var = "x" /\ preset_name_var = "x"
          /\ ui = PresetUi(FilePresets["x"])
          /\ cfg = [Config EXCEPT !.midi_path = OutsidePath]
          /\ play_btn = "normal"

NextPreset ==
    \/ choose_midi
    \/ SetPresetSetting
    \/ TypeName
    \/ save_preset
    \/ apply_preset
    \/ RemoveMidi

SpecPreset == InitPreset /\ [][NextPreset]_vars

(***************************************************************************)
(* Playback while stored files are deleted and a preset is selected        *)
(***************************************************************************)
\* the MIDI files of this run: none with messages missing, one chord, two
FileSources ==
    {<<>>,
     <<Msg(1, "note_on", 60, 64), Msg(0, "note_on", 62, 64)>>,
     <<Msg(1, "note_on", 60, 64), Msg(1, "note_on", 62, 64)>>}

\* the presets.json an earlier run left: preset a, saved with the default
\* settings, in tap or in hold mode, for the first file of the midis folder
StoredPresets(tap) ==
    [n \in {"a"} |-> PresetOf([UiDefaults EXCEPT !.always_tap = tap], 1)]

\* App.__init__ (lines 279-293) with that presets.json:
\* _refresh_presets_dropdown applies preset a
InitFile ==
    /\ sq = SqIdle /\ km = KmIdle /\ pipe = PipeIdle
    /\ source \in FileSources
    /\ disk = <<[exists |-> TRUE, mid |-> source]>>
    /\ \E tap \in BOOLEAN :
        /\ presets = StoredPresets(tap) /\ presets_file = StoredPresets(tap)
        /\ ui = PresetUi(StoredPresets(tap)["a"])
    /\ preset_var = "a" /\ preset_name_var = "a"
    /\ msgbox = None /\ saved = <<>> /\ DrawIdle
    /\ cfg = [Config EXCEPT !.midi_path = 1]
    /\ play_btn = "normal" /\ stop_btn = "disabled"
    /\ stop_event = FALSE /\ play_thread = 0
    /\ workers = [w \in Workers |-> Unborn] /\ kb = [w \in Workers |-> <<>>]
    /\ ui_pc = "idle" /\ after_q = <<>>
    /\ log = {} /\ stop_mark = [w \in Workers |-> -1]

NextFile ==
    \/ choose_midi
    \/ RemoveMidi
    \/ apply_preset
    \/ play
    \/ play_stop_old
    \/ play_resume
    \/ stop
    \/ RunCallback
    \/ \E w \in Workers : W_Start(w)
    \/ \E w \in Workers : W_Load(w)
    \/ \E w \in Workers : W_Loop(w)
    \/ \E w \in Workers : W_TapPress(w)
    \/ \E w \in Workers : W_TapRelease(w)
    \/ \E w \in Workers : W_Hold(w)

SpecFile == InitFile /\ [][NextFile]_vars

(***************************************************************************)
(* The pixel-art drawer (src/drawing/main.py 106-251)                      *)
(***************************************************************************)
\* the image the user may load, as DrawRes x DrawRes grey values: a
\* diagonal just below the threshold on a ground just at it
Images == {[p \in Grid |-> IF p.x = p.y THEN 127 ELSE 128]}

\* where the mouse is when ENTER is pressed
MousePoints == {Point(1, 1)}

\* the number in thresh_entry
Threshold == 128

\* pixelate_and_threshold (lines 27-34) on an image that is res x res
\* already: the pixels that come out black
pixelate_and_threshold(img) == {p \in Grid : img[p] < Threshold}

DrawAlive(w) == draw_threads[w].pc \notin {"unborn", "done"}

DrawBorn == {w \in Drawers : draw_threads[w].pc # "unborn"}

Abs2(n) == IF n < 0 THEN -n ELSE n

\* int(): towards zero
TowardZero(n, d) == IF n >= 0 THEN n \div d ELSE -((-n) \div d)

\* origins are kept multiplied by OriginScale, so that the halves and the
\* division by res - 1 stay whole numbers
OriginScale == 2 * (DrawRes - 1)

nonDraw == <<fnVars, appVars>>

\* load_image (lines 108-122), the dialog gave an image that opens
load_image ==
    /\ \E img \in Images :
        app' = [app EXCEPT !.has_original = TRUE, !.original_img = img,
                           !.status_lbl = "Image loaded",
                           !.has_preview = FALSE, !.preview_img = {},
                           !.btn_tl = "disabled", !.btn_br = "disabled",
                           !.btn_center = "disabled", !.draw_btn = "disabled"]
    /\ UNCHANGED <<nonDraw, STOP_FLAG, DRAW_THREAD, draw_threads, clicks, draw_mark>>

\* update_preview (lines 124-145)
update_preview ==
    /\ app.has_original
    /\ app' = [app EXCEPT !.has_preview = TRUE,
                          !.preview_img = pixelate_and_threshold(app.original_img),
                          !.status_lbl = "Preview ready",
                          !.btn_tl = "normal", !.btn_br = "normal",
                          !.btn_center = "disabled", !.draw_btn = "disabled"]
    /\ UNCHANGED <<nonDraw, STOP_FLAG, DRAW_THREAD, draw_threads, clicks, draw_mark>>

\* set_tl (lines 147-149)
set_tl ==
    /\ app.btn_tl = "normal"
    /\ app' = [app EXCEPT !.status_lbl = "Move mouse to top-left", !.stage = "tl"]
    /\ UNCHANGED <<nonDraw, STOP_FLAG, DRAW_THREAD, draw_threads, clicks, draw_mark>>

\* set_br (lines 151-153)
set_br ==
    /\ app.btn_br = "normal"
    /\ app' = [app EXCEPT !.status_lbl = "Move mouse to bottom-right", !.stage = "br"]
    /\ UNCHANGED <<nonDraw, STOP_FLAG, DRAW_THREAD, draw_threads, clicks, draw_mark>>

\* capture_center (lines 155-157)
capture_center ==
    /\ app.btn_center = "normal"
    /\ app' = [app EXCEPT !.status_lbl = "Move mouse to art center", !.stage = "center"]
    /\ UNCHANGED <<nonDraw, STOP_FLAG, DRAW_THREAD, draw_threads, clicks, draw_mark>>

\* on_enter (lines 159-196) with the mouse at pos.  In stage br with no
\* top-left corner yet, abs(self.br_x - None) raises and ends the handler.
on_enter ==
    /\ \E pos \in MousePoints :
        app' =
            IF app.stage = "unset" \/ ~app.has_preview THEN app
            ELSE IF app.stage = "tl"
            THEN [app EXCEPT !.has_tl = TRUE, !.tl = pos,
                             !.status_lbl = "Top-Left grid corner set", !.stage = "None"]
            ELSE IF app.stage = "br"
            THEN IF ~app.has_tl
                 THEN [app EXCEPT !.br = pos, !.status_lbl = "Bottom-Right grid corner set",
                                  !.stage = "None"]
                 ELSE [app EXCEPT !.br = pos, !.stage = "None",
                                  !.cell = Point(Abs2(pos.x - app.tl.x), Abs2(pos.y - app.tl.y)),
                                  !.status_lbl = "Cell size calculated",
                                  !.btn_center = "normal"]
            ELSE IF app.stage = "center"
            THEN [app EXCEPT !.center = pos, !.status_lbl = "Art center set",
                             !.stage = "None", !.draw_btn = "normal"]
            ELSE app
    /\ UNCHANGED <<nonDraw, STOP_FLAG, DRAW_THREAD, draw_threads, clicks, draw_mark>>

\* the user edits the "Delay (ms)" entry: a number, or no number
DelayTexts == {"0.0", "fast"}

EditDelay ==
    /\ \E text \in DelayTexts :
        /\ text # app.delay_entry
        /\ app' = [app EXCEPT !.delay_entry = text]
    /\ UNCHANGED <<nonDraw, STOP_FLAG, DRAW_THREAD, draw_threads, clicks, draw_mark>>

\* start_drawing (lines 198-206)
start_drawing ==
    LET w == Cardinality(DrawBorn) + 1
    IN  /\ app.draw_btn = "normal"
        /\ w \in Drawers
        /\ STOP_FLAG' = FALSE
        /\ app' = [app EXCEPT !.stop_btn = "normal", !.draw_btn = "disabled",
                              !.status_lbl = "Drawing"]
        /\ DRAW_THREAD' = w
        /\ draw_threads' = [draw_threads EXCEPT ![w].pc = "parse"]
        /\ UNCHANGED <<nonDraw, clicks, draw_mark>>

\* stop_drawing (lines 208-211)
stop_drawing ==
    /\ app.stop_btn = "normal"
    /\ STOP_FLAG' = TRUE
    /\ app' = [app EXCEPT !.status_lbl = "Stopping"]
    /\ draw_mark' = [w \in Drawers |->
                        IF DrawAlive(w) /\ ~draw_mark[w].set
                        THEN [set |-> TRUE, clicks |-> Len(clicks[w]),
                              visited |-> draw_threads[w].visited]
                        ELSE draw_mark[w]]
    /\ UNCHANGED <<nonDraw, DRAW_THREAD, draw_threads, clicks>>

\* draw_loop, lines 216-229: read the entries (a delay that is no number
\* ends the thread with an error box), take the pixels of the preview
\* (None.load() raises and ends the thread), compute the origin, sleep 0.1 s
D_Start(w) ==
    /\ draw_threads[w].pc = "parse"
    /\ draw_threads' =
           IF app.delay_entry # "0.0" \/ ~app.has_preview
           THEN [draw_threads EXCEPT ![w].pc = "done"]
           ELSE [draw_threads EXCEPT
                    ![w].pc = "sleep",
                    ![w].pixels = app.preview_img,
                    ![w].origin = Point(app.center.x * OriginScale
                                            - app.cell.x * (DrawRes - 1),
                                        app.center.y * OriginScale
                                            - app.cell.y * (DrawRes - 1))]
    /\ UNCHANGED <<nonDraw, STOP_FLAG, DRAW_THREAD, app, clicks, draw_mark>>

\* after time.sleep(0.1): count = 0, the first row
D_Wake(w) ==
    /\ draw_threads[w].pc = "sleep"
    /\ draw_threads' = [draw_threads EXCEPT ![w].pc = "row", ![w].y = 0, ![w].count = 0]
    /\ UNCHANGED <<nonDraw, STOP_FLAG, DRAW_THREAD, app, clicks, draw_mark>>

\* if STOP_FLAG: break  (lines 232-233, 235-236)
DrawStopIsSet == STOP_FLAG

\* for y in range(res): if STOP_FLAG: break  (lines 231-233)
D_Row(w) ==
    LET d == draw_threads[w]
    IN  /\ d.pc = "row"
        /\ draw_threads' =
               IF d.y >= DrawRes \/ DrawStopIsSet
               THEN [draw_threads EXCEPT ![w].pc = "finish"]
               ELSE [draw_threads EXCEPT ![w].pc = "col", ![w].x = 0]
        /\ UNCHANGED <<nonDraw, STOP_FLAG, DRAW_THREAD, app, clicks, draw_mark>>

\* for x in range(res): if STOP_FLAG: break; then the pixel (lines 234-241).
\* The break leaves the inner loop only: the row loop goes on to its own
\* check.  self.cell_w and self.cell_h are read here, per pixel.
D_Col(w) ==
    LET d == draw_threads[w]
        tx == TowardZero(d.origin.x + d.x * 2 * app.cell.x, OriginScale)
        ty == TowardZero(d.origin.y + d.y * 2 * app.cell.y, OriginScale)
    IN  /\ d.pc = "col"
        /\ draw_threads' =
               IF d.x >= DrawRes \/ DrawStopIsSet
               THEN [draw_threads EXCEPT ![w].pc = "row", ![w].y = @ + 1]
               ELSE IF Point(d.x, d.y) \in d.pixels
                       /\ 0 <= tx /\ tx < screen_w /\ 0 <= ty /\ ty < screen_h
               THEN [draw_threads EXCEPT ![w].pc = "click", ![w].at = Point(tx, ty),
                                         ![w].visited = @ + 1]
               ELSE [draw_threads EXCEPT ![w].x = @ + 1, ![w].visited = @ + 1]
        /\ UNCHANGED <<nonDraw, STOP_FLAG, DRAW_THREAD, app, clicks, draw_mark>>

\* quartz_click(tx, ty); count += 1; the delay sleep (lines 242-245)
D_Click(w) ==
    LET d == draw_threads[w]
    IN  /\ d.pc = "click"
        /\ clicks' = [clicks EXCEPT ![w] = Append(@, d.at)]
        /\ draw_threads' = [draw_threads EXCEPT ![w].pc = "col", ![w].x = @ + 1,
                                                ![w].count = @ + 1]
        /\ UNCHANGED <<nonDraw, STOP_FLAG, DRAW_THREAD, app, draw_mark>>

\* after the loops (lines 247-251): the status line and the two buttons,
\* set from the draw thread
D_Finish(w) ==
    LET text == IF ~STOP_FLAG THEN "Finished clicks" ELSE "Drawing stopped."
    IN  /\ draw_threads[w].pc = "finish"
        /\ app' = [app EXCEPT !.status_lbl = text, !.stop_btn = "disabled",
                              !.draw_btn = "normal"]
        /\ draw_threads' = [draw_threads EXCEPT ![w].pc = "done", ![w].status = text]
        /\ UNCHANGED <<nonDraw, STOP_FLAG, DRAW_THREAD, clicks, draw_mark>>

InitDraw ==
    /\ sq = SqIdle /\ km = KmIdle /\ pipe = PipeIdle /\ AppIdle

NextDraw ==
    \/ load_image
    \/ update_preview
    \/ set_tl
    \/ set_br
    \/ capture_center
    \/ on_enter
    \/ EditDelay
    \/ start_drawing
    \/ stop_drawing
    \/ \E w \in Drawers : D_Start(w)
    \/ \E w \in Drawers : D_Wake(w)
    \/ \E w \in Drawers : D_Row(w)
    \/ \E w \in Drawers : D_Col(w)
    \/ \E w \in Drawers : D_Click(w)
    \/ \E w \in Drawers : D_Finish(w)

SpecDraw == InitDraw /\ [][NextDraw]_vars

(***************************************************************************)
(* C7                                                                      *)
(***************************************************************************)
\* C7: squeeze_index maps any index into [lo, hi] (lo, hi clamped to 0..14 and
\* swapped when lo > hi): the result lies in the range, is lo for idx <= 0
\* and hi for idx >= 14, is the identity on 0..14 for the full range, never
\* decreases when the index grows, and is lo plus idx*(hi-lo)/14 rounded to
\* the nearest integer, ties to even.
C7_SqueezeMonotone ==
    sq.calls >= 1 =>
        LET lo1 == IF sq.lo < 0 THEN 0 ELSE IF sq.lo > 14 THEN 14 ELSE sq.lo
            hi1 == IF sq.hi < 0 THEN 0 ELSE IF sq.hi > 14 THEN 14 ELSE sq.hi
            L == IF lo1 > hi1 THEN hi1 ELSE lo1
            H == IF lo1 > hi1 THEN lo1 ELSE hi1
            i == IF sq.idx < 0 THEN 0 ELSE IF sq.idx > 14 THEN 14 ELSE sq.idx
            err == 14 * (sq.out - L) - i * (H - L)
        IN  /\ L <= sq.out /\ sq.out <= H
            /\ sq.idx <= 0 => sq.out = L
            /\ sq.idx >= 14 => sq.out = H
            /\ (L = 0 /\ H = 14 /\ sq.idx \in 0..14) => sq.out = sq.idx
            /\ (sq.calls = 2 /\ sq.pidx <= sq.idx) => sq.pout <= sq.out
            /\ -7 <= err /\ err <= 7
            /\ err \in {-7, 7} => (sq.out - L) % 2 = 0

\* two calls with growing index and growing result, the bounds given the
\* wrong way round, the second call a tie (7 * 3 / 14 = 1.5, rounded to 2)
C7_Witness ==
    /\ sq.calls = 2 /\ sq.lo = 9 /\ sq.hi = 6
    /\ sq.pidx = 2 /\ sq.pout = 6
    /\ sq.idx = 7 /\ sq.out = 8
    /\ 14 * (sq.out - 6) - sq.idx * 3 = 7

(***************************************************************************)
(* C5, C6, C8                                                              *)
(***************************************************************************)
KmOffset == (km.note + km.c.transpose) - km.c.base_c_midi
KmPrevOffset == (km.pnote + km.c.transpose) - km.c.base_c_midi

\* C5: in 21-key mode, for the Mac and the Windows layout, the note at offset
\* d = note + transpose - base C gets a key exactly when 0 <= d <= 36: the
\* entry d mod 12 of LOW, MID or HIGH for octave d div 12 = 0, 1, 2, and 'i'
\* for d = 36; below 0 and above 36 it gets None; and two different offsets
\* in 0..36 never get the same key.
C5_Keys21 ==
    (km.calls >= 1 /\ ~km.c.use_15_keys) =>
        LET d == KmOffset
            maps == get_keymaps(km.c.use_windows_map)
        IN  /\ (d < 0 \/ d > 36) <=> km.key = None
            /\ d \in 0..11 => km.key = maps.LOW[d + 1]
            /\ d \in 12..23 => km.key = maps.MID[d - 12 + 1]
            /\ d \in 24..35 => km.key = maps.HIGH[d - 24 + 1]
            /\ d = 36 => km.key = "i"
            /\ (km.calls = 2 /\ d \in 0..36 /\ KmPrevOffset \in 0..36 /\ KmPrevOffset # d)
                   => km.pkey # km.key

\* the top C after the first note above the keyboard, Windows layout
C5_Witness ==
    /\ km.calls = 2 /\ ~km.c.use_15_keys /\ km.c.use_windows_map
    /\ KmPrevOffset = 37 /\ km.pkey = None
    /\ KmOffset = 36 /\ km.key = "i"

\* C6: in 15-key chromatic mode with squeeze off, the notes C, C#, D at
\* offsets 0, 1, 2 from the base C play the keys 'q', 'w', 'e'.
C6_ChromaticQWE ==
    (km.calls >= 1 /\ km.c.use_15_keys /\ km.c.chromatic_15 /\ ~km.c.squeeze_enabled) =>
        /\ KmOffset = 0 => km.key = "q"
        /\ KmOffset = 1 => km.key = "w"
        /\ KmOffset = 2 => km.key = "e"

WhiteSemitones == {0, 2, 4, 5, 7, 9, 11}

\* the greatest white semitone at or below semitone s of an octave
WhiteBelow(s) == CHOOSE x \in WhiteSemitones : x <= s /\ \A y \in WhiteSemitones : y <= s => y <= x

\* C8: in 15-key diatonic mode with squeeze off, a note at offset d >= 0 gets
\* what the greatest white offset at or below it in its octave gets; a white
\* note of degree g in octave o gets KEYS_15[7 * o + g]; and the result is
\* None exactly when that index is 15 or more, or d < 0.
C8_DiatonicFloor ==
    (km.calls >= 1 /\ km.c.use_15_keys /\ ~km.c.chromatic_15 /\ ~km.c.squeeze_enabled) =>
        LET d == KmOffset
            o == d \div 12
            white == WhiteBelow(d % 12)
            g == Cardinality({x \in WhiteSemitones : x < white})
        IN  /\ d < 0 => km.key = None
            /\ d >= 0 =>
                /\ km.key = None <=> 7 * o + g >= 15
                /\ 7 * o + g < 15 => km.key = KEYS_15[7 * o + g + 1]
                /\ (km.calls = 2 /\ KmPrevOffset = 12 * o + white) => km.key = km.pkey

\* F# of the second octave after its F: both play 'r'
C8_Witness ==
    /\ km.calls = 2 /\ km.c.use_15_keys /\ ~km.c.chromatic_15 /\ ~km.c.squeeze_enabled
    /\ KmPrevOffset = 17 /\ KmOffset = 18
    /\ km.pkey = "r" /\ km.key = "r"

(***************************************************************************)
(* C3, C10                                                                 *)
(***************************************************************************)
NonDecreasing(timed) == \A i \in 1..(Len(timed) - 1) : timed[i].t <= timed[i + 1].t

\* how many messages the groups before group g hold
RECURSIVE MsgsBefore(_, _)
MsgsBefore(groups, g) ==
    IF g <= 1 THEN 0 ELSE MsgsBefore(groups, g - 1) + Len(groups[g - 1].msgs)

\* C3: for a list with non-decreasing timestamps the groups, yielded in order,
\* hold the messages of the list in the list's order, none lost, doubled or
\* moved; every message lies within eps of its group's timestamp; and the
\* group timestamps grow strictly.
C3_GroupsPartition ==
    (pipe.stage = "grouped" /\ NonDecreasing(pipe.kept)) =>
        LET gs == pipe.groups
            n == Len(gs)
        IN  /\ MsgsBefore(gs, n + 1) = Len(pipe.kept)
            /\ \A g \in 1..n : \A k \in 1..Len(gs[g].msgs) :
                   LET e == pipe.kept[MsgsBefore(gs, g) + k]
                       gap == IF e.t >= gs[g].t THEN e.t - gs[g].t ELSE gs[g].t - e.t
                   IN  gs[g].msgs[k] = e.msg /\ gap <= pipe.eps
            /\ \A g \in 1..n : gs[g].msgs # <<>>
            /\ \A g \in 1..(n - 1) : gs[g].t < gs[g + 1].t

\* three messages one tick apart with eps = 1: the first two form a group
\* (the third is 2 > eps after its start), the third a group of its own
C3_Witness ==
    /\ pipe.stage = "grouped" /\ pipe.eps = 1
    /\ Len(pipe.kept) = 3
    /\ pipe.kept[1].t + 1 = pipe.kept[2].t /\ pipe.kept[2].t + 1 = pipe.kept[3].t
    /\ Len(pipe.groups) = 2 /\ Len(pipe.groups[1].msgs) = 2

\* the window the claim describes, read off the timed list
TrimStart(timed) ==
    LET ons == {i \in 1..Len(timed) : timed[i].msg.type = "note_on" /\ timed[i].msg.velocity > 0}
    IN  IF ons = {} THEN 0 ELSE timed[CHOOSE i \in ons : \A j \in ons : i <= j].t

TrimEnd(timed) ==
    LET ns == {i \in 1..Len(timed) : timed[i].msg.type \in {"note_on", "note_off"}}
    IN  IF ns = {} THEN timed[Len(timed)].t ELSE timed[CHOOSE i \in ns : \A j \in ns : j <= i].t

\* C10: with trim on, the messages kept for replay are exactly those with
\* start <= t <= end, start the time of the first note_on with velocity > 0
\* (0 without one), end the time of the last note_on or note_off (the last
\* message's time without one); start <= end; and every note_on with
\* velocity > 0 is kept.
C10_TrimWindow ==
    (pipe.stage \in {"trimmed", "grouped"} /\ pipe.trim /\ pipe.timed # <<>>) =>
        LET timed == pipe.timed
            inside == {i \in 1..Len(timed) : TrimStart(timed) <= timed[i].t
                                             /\ timed[i].t <= TrimEnd(timed)}
        IN  /\ pipe.window.start <= pipe.window.end
            /\ pipe.window = [start |-> TrimStart(timed), end |-> TrimEnd(timed)]
            /\ Len(pipe.kept) = Cardinality(inside)
            /\ \A i \in inside : pipe.kept[Cardinality({j \in inside : j <= i})] = timed[i]
            /\ \A i \in 1..Len(timed) :
                   (timed[i].msg.type = "note_on" /\ timed[i].msg.velocity > 0) => i \in inside

\* silence before and after one note: only the note is kept
C10_Witness ==
    /\ pipe.stage = "trimmed" /\ pipe.trim
    /\ Len(pipe.timed) = 3 /\ Len(pipe.kept) = 1
    /\ pipe.kept[1] = pipe.timed[2]
    /\ pipe.timed[1].t < pipe.timed[2].t /\ pipe.timed[2].t < pipe.timed[3].t
    /\ pipe.kept[1].msg.type = "note_on" /\ pipe.kept[1].msg.velocity > 0

(***************************************************************************)
(* C1, C2, C4, C9                                                          *)
(***************************************************************************)
\* the UI thread has run every callback thread w queued
NoPending(w) == \A i \in 1..Len(after_q) : after_q[i].w # w

Logged(w, text) == [w |-> w, text |-> text] \in log

\* what the stop event, set while thread w ran and not cleared since, means
\* for the key events of w: none for a group after the one w was sleeping
\* for or emitting, w begins no later group, none at all when the stop came
\* before the first group was reached (during the lead-in)
StopHolds(w) ==
    /\ \A i \in 1..Len(kb[w]) : kb[w][i].grp <= stop_mark[w]
    /\ workers[w].pc \in {"emit", "tap_sleep"} => workers[w].gi <= stop_mark[w]
    /\ stop_mark[w] = 0 => kb[w] = <<>>

\* C1 as stated: once the stop event is set while a worker runs, and is not
\* cleared again, the worker emits key events for at most the group it is
\* sleeping for or emitting, starts no later group, emits nothing when the
\* stop came during the lead-in, and ends logging 'Stopped.'.
C1_StopThenStopped ==
    \A w \in Workers :
        stop_mark[w] >= 0 =>
            /\ StopHolds(w)
            /\ (workers[w].pc = "done" /\ NoPending(w)) => Logged(w, "Stopped.")

\* C1 as amended: the same, but a worker that ends before the loop, because
\* the MIDI file holds no message, is missing or cannot be read, does not log
\* 'Stopped.': it logs 'No messages to play', or 'ERROR: MIDI missing', or
\* (mido raised) nothing at all, and has emitted no key event; no stopped
\* worker logs 'Done.'.
C1_StopThenStoppedOrEarlyExit ==
    \A w \in Workers :
        stop_mark[w] >= 0 =>
            /\ StopHolds(w)
            /\ ~Logged(w, "Done.")
            /\ (workers[w].pc = "done" /\ NoPending(w)) =>
                   \/ Logged(w, "Stopped.")
                   \/ /\ \/ Logged(w, "No messages to play")
                         \/ Logged(w, "ERROR")
                         \/ \A l \in log : l.w # w
                      /\ kb[w] = <<>>
                      /\ workers[w].groups = <<>>

\* a worker stopped while it handled the first of two groups: it emitted for
\* that group only and logged 'Stopped.'
C1_Witness ==
    \E w \in Workers :
        /\ stop_mark[w] = 1 /\ stop_event
        /\ workers[w].pc = "done" /\ NoPending(w)
        /\ Len(workers[w].groups) = 2
        /\ kb[w] # <<>> /\ \A i \in 1..Len(kb[w]) : kb[w][i].grp = 1
        /\ Logged(w, "Stopped.")

\* C2: at most one playback worker emits key events: once play() has started
\* a later worker, an earlier one posts no further key event.
C2_SingleProducer ==
    [][\A w \in Workers :
          (\E x \in Workers : x > w /\ workers[x].pc # "unborn") => kb'[w] = kb[w]]_vars

\* the groups for which thread w has posted a key-down
DownGroups(w) == {kb[w][i].grp : i \in {j \in 1..Len(kb[w]) : kb[w][j].down}}

\* when (on w's clock of slept ticks) the first key-down of group g was posted
FirstDownAt(w, g) ==
    LET is == {i \in 1..Len(kb[w]) : kb[w][i].down /\ kb[w][i].grp = g}
    IN  kb[w][CHOOSE i \in is : \A j \in is : i <= j].at

\* C4: playback is in real time at the chosen speed: the first key-down of
\* replayed group k comes (t_k - t_0) / speed after the first key-down of the
\* first replayed group, in tap mode and in hold mode.
C4_RealTime ==
    \A w \in Workers :
        \A g0 \in DownGroups(w), g \in DownGroups(w) :
            (g0 < g /\ \A x \in DownGroups(w) : g0 <= x) =>
                (FirstDownAt(w, g) - FirstDownAt(w, g0)) * cfg.speed.num
                    = (workers[w].groups[g].t - workers[w].groups[g0].t) * cfg.speed.den

\* the key events thread w posts in a step
Posted(w) == SubSeq(kb'[w], Len(kb[w]) + 1, Len(kb'[w]))

\* the mapped keys of the note_on messages with velocity > 0 of a group
HitKeys(msgs) ==
    {midi_note_to_key(msgs[i].note, cfg) :
        i \in {j \in 1..Len(msgs) : msgs[j].type = "note_on" /\ msgs[j].velocity > 0}}
            \ {None}

\* the place of the first message of the group that maps to key k
FirstHit(msgs, k) ==
    CHOOSE i \in 1..Len(msgs) :
        /\ msgs[i].type = "note_on" /\ msgs[i].velocity > 0
        /\ midi_note_to_key(msgs[i].note, cfg) = k
        /\ \A j \in 1..(i - 1) :
               ~(msgs[j].type = "note_on" /\ msgs[j].velocity > 0
                 /\ midi_note_to_key(msgs[j].note, cfg) = k)

\* C9: in always-tap mode a group makes the worker press each distinct mapped
\* key of its note_on messages with velocity > 0 once, in the order of first
\* occurrence, and nothing else; after the tap sleep it releases exactly
\* those keys in the same order and only then turns to the next group, so
\* every key pressed for the group is up again.
C9_TapPressRelease ==
    [][\A w \in Workers :
          LET g == workers[w].gi
              msgs == workers[w].groups[g].msgs
              new == Posted(w)
          IN  /\ (workers[w].pc = "emit" /\ workers'[w].pc # "emit" /\ cfg.always_tap) =>
                     /\ \A i \in 1..Len(new) : new[i].down /\ new[i].grp = g
                     /\ {new[i].key : i \in 1..Len(new)} = HitKeys(msgs)
                     /\ Len(new) = Cardinality(HitKeys(msgs))
                     /\ \A i \in 1..Len(new), j \in 1..Len(new) :
                            i < j => FirstHit(msgs, new[i].key) < FirstHit(msgs, new[j].key)
                     /\ new = <<>> => (workers'[w].pc = "loop" /\ workers'[w].gi = g + 1)
                     /\ new # <<>> => (workers'[w].pc = "tap_sleep" /\ workers'[w].gi = g)
              /\ (workers[w].pc = "tap_sleep" /\ workers'[w].pc # "tap_sleep") =>
                     LET n == Len(new)
                         pressed == SubSeq(kb[w], Len(kb[w]) - n + 1, Len(kb[w]))
                     IN  /\ n > 0 /\ n <= Len(kb[w])
                         /\ \A i \in 1..n :
                                /\ pressed[i].down /\ pressed[i].grp = g
                                /\ ~new[i].down /\ new[i].grp = g
                                /\ new[i].key = pressed[i].key
                         /\ \A i \in 1..Len(kb[w]) :
                                (kb[w][i].grp = g /\ kb[w][i].down) => i > Len(kb[w]) - n
                         /\ workers'[w].pc = "loop" /\ workers'[w].gi = g + 1
              /\ (workers[w].pc = "tap_sleep" /\ workers'[w].pc = "tap_sleep") => new = <<>>]_vars

\* a worker back at the top of the loop after tapping the chord C, C, D:
\* 'z' and 'x' pressed once each, then released in the same order
C9_Witness ==
    \E w \in Workers :
        /\ workers[w].pc = "loop" /\ workers[w].gi = 2
        /\ cfg.always_tap
        /\ Len(workers[w].groups[1].msgs) = 3
        /\ Len(kb[w]) = 4
        /\ kb[w][1].down /\ kb[w][1].key = "z"
        /\ kb[w][2].down /\ kb[w][2].key = "x"
        /\ ~kb[w][3].down /\ kb[w][3].key = "z"
        /\ ~kb[w][4].down /\ kb[w][4].key = "x"

(***************************************************************************)
(* C11                                                                     *)
(***************************************************************************)
\* the key events the emit step of thread w posts when the branch and the
\* keys are those of configuration c
EmitWith(w, c) ==
    LET wr == workers[w]
        msgs == wr.groups[wr.gi].msgs
        keys == TapKeys(msgs, c)
    IN  IF c.always_tap
        THEN [i \in 1..Len(keys) |-> KeyEvent(TRUE, keys[i], wr.gi, wr.clk)]
        ELSE HoldMsgs([key_down |-> wr.key_down, ev |-> <<>>, clk |-> wr.clk],
                      msgs, 1, c, wr.gi).ev

\* C11: a worker plays with the settings play() snapshotted when it started
\* the worker: the sleep before a group is the distance of the timestamps
\* divided by that speed, the tap sleep is that tap duration, and the key
\* events of a group are those of that mode, layout and squeeze bounds,
\* whatever happens to self.cfg while the worker runs.
C11_SnapshotAtPlay ==
    [][\A w \in Workers :
          LET wr == workers[w]
              dt0 == ScaledDelay(wr.groups[wr.gi].t, wr.prev_t, wr.cfg0.speed)
          IN  /\ (wr.pc = "loop" /\ workers'[w].pc = "emit") =>
                     workers'[w].clk - wr.clk = Max(0, dt0)
              /\ (wr.pc = "emit" /\ workers'[w].pc # "emit") =>
                     /\ Posted(w) = EmitWith(w, wr.cfg0)
                     /\ workers'[w].pc = "tap_sleep" =>
                            workers'[w].clk - wr.clk = Max(1, wr.cfg0.tap_ms)]_vars

(***************************************************************************)
(* C12, C14                                                                *)
(***************************************************************************)
\* the tk variables a preset saved from u brings back: u, with the squeeze
\* bounds clamped to 0..14 and put in order
Sanitized(u) ==
    LET lo == IF u.squeeze_lo < 0 THEN 0 ELSE IF u.squeeze_lo > 14 THEN 14 ELSE u.squeeze_lo
        hi == IF u.squeeze_hi < 0 THEN 0 ELSE IF u.squeeze_hi > 14 THEN 14 ELSE u.squeeze_hi
    IN  [u EXCEPT !.squeeze_lo = IF lo <= hi THEN lo ELSE hi,
                  !.squeeze_hi = IF lo <= hi THEN hi ELSE lo]

\* a save_preset step that stores a preset
SaveStores ==
    /\ save_preset
    /\ Strip(preset_name_var) \in Names(saved')
    /\ saved'[Strip(preset_name_var)] = [ui |-> ui, midi_path |-> cfg.midi_path]
    /\ msgbox' = msgbox

\* saving under a name that is there overwrites it: the names stay, the
\* other presets stay; under a new name the presets grow by that one
SaveKeepsCount ==
    SaveStores =>
        LET name == Strip(preset_name_var)
        IN  /\ Names(presets') = Names(presets) \cup {name}
            /\ name \in Names(presets) => Cardinality(Names(presets')) = Cardinality(Names(presets))
            /\ \A n \in Names(presets) \ {name} : presets'[n] = presets[n]
            /\ presets_file' = presets'

\* C12 as stated: selecting a preset that save_preset stored sets every
\* setting control to its value at the save, the squeeze bounds to the saved
\* ones clamped to 0..14 with lo <= hi, cfg.midi_path to the stored MIDI
\* and enables Play; a save under an existing name overwrites it and leaves
\* the number of presets alone.
C12_PresetRoundTrip ==
    [][/\ \A n \in Names(saved) :
              (apply_preset /\ preset_var' = n) =>
                  /\ ui' = Sanitized(saved[n].ui)
                  /\ cfg'.midi_path = saved[n].midi_path
                  /\ play_btn' = "normal"
       /\ SaveKeepsCount]_vars

\* C12 as amended: the same, with the MIDI and the Play button as above when
\* the stored MIDI file is still there, and cfg.midi_path empty and Play
\* disabled when it has been deleted since.
C12_PresetRoundTripIfMidiThere ==
    [][/\ \A n \in Names(saved) :
              (apply_preset /\ preset_var' = n) =>
                  /\ ui' = Sanitized(saved[n].ui)
                  /\ IF disk[saved[n].midi_path].exists
                     THEN cfg'.midi_path = saved[n].midi_path /\ play_btn' = "normal"
                     ELSE cfg'.midi_path = NoPath /\ play_btn' = "disabled"
       /\ SaveKeepsCount]_vars

\* preset a, saved next to preset x with 16 typed as lo and hi at 9, has been
\* selected: lo, hi are 9, 14 (16 clamped to 14, then swapped with 9), the
\* other controls are as saved, its MIDI is current, Play is on
C12_Witness ==
    /\ "a" \in Names(saved) /\ "x" \in Names(presets)
    /\ saved["a"].ui.squeeze_lo = 16 /\ saved["a"].ui.squeeze_hi = 9
    /\ saved["a"].ui.transpose = 1
    /\ preset_var = "a"
    /\ ui = Sanitized(saved["a"].ui) /\ ui.squeeze_lo = 9 /\ ui.squeeze_hi = 14
    /\ cfg.midi_path = saved["a"].midi_path /\ play_btn = "normal"

\* one of the four preconditions of save_preset fails
SaveRefused ==
    \/ Strip(preset_name_var) = ""
    \/ cfg.midi_path = NoPath
    \/ ~FileAt(cfg.midi_path).exists
    \/ cfg.midi_path = OutsidePath

\* C14: while the preset name is empty or blank, or no MIDI is chosen, or
\* the current MIDI file is missing, or it lies outside the app directory,
\* save_preset (and every other step) leaves self.presets and presets.json
\* as they are.
C14_SaveRefusedNoWrite ==
    [][SaveRefused => (presets' = presets /\ presets_file' = presets_file)]_vars

\* save_preset has just refused to save because the MIDI file was deleted;
\* the preset saved before is as it was
C14_Witness ==
    /\ msgbox = "Missing MIDI"
    /\ cfg.midi_path # NoPath /\ ~FileAt(cfg.midi_path).exists
    /\ Strip(preset_name_var) = "a"
    /\ "a" \in Names(presets) /\ presets_file = presets
    /\ presets["a"] # PresetOf(ui, cfg.midi_path)

(***************************************************************************)
(* C13                                                                     *)
(***************************************************************************)
\* thread w ends in this step
Exits(w) == workers[w].pc \notin {"unborn", "done"} /\ workers'[w].pc = "done"

\* the callbacks queued in a step of a worker
Queued == SubSeq(after_q', Len(after_q) + 1, Len(after_q'))

\* C13: a worker that finds no file at cfg.midi_path when it starts posts
\* no key event, queues the error line and ends; every worker that ends,
\* however it ends, queues the two button callbacks last and posts nothing
\* afterwards; when the UI thread runs them, the error line is in the log,
\* Stop is disabled, and Play is enabled exactly when cfg.midi_path is not
\* empty.
C13_MissingMidiRestoresButtons ==
    [][/\ \A w \in Workers :
              /\ (workers[w].pc = "start" /\ workers'[w] # workers[w]
                      /\ cfg.midi_path # NoPath /\ ~FileAt(cfg.midi_path).exists) =>
                     /\ Exits(w)
                     /\ kb'[w] = <<>>
                     /\ Queued = <<Cb("log", w, "ERROR"), Cb("play_btn", w, ""),
                                   Cb("stop_btn", w, "")>>
              /\ Exits(w) =>
                     /\ Len(Queued) >= 2
                     /\ SubSeq(Queued, Len(Queued) - 1, Len(Queued))
                            = <<Cb("play_btn", w, ""), Cb("stop_btn", w, "")>>
              /\ workers[w].pc = "done" => (kb'[w] = kb[w] /\ workers'[w].pc = "done")
       /\ (after_q # <<>> /\ after_q' = Tail(after_q)) =>
              LET cb == Head(after_q)
              IN  /\ (cb.fn = "log" /\ cb.text = "ERROR") =>
                         [w |-> cb.w, text |-> "ERROR"] \in log'
                  /\ cb.fn = "play_btn" =>
                         (play_btn' = "normal" <=> cfg.midi_path # NoPath)
                  /\ cb.fn = "play_btn" =>
                         (play_btn' = "disabled" <=> cfg.midi_path = NoPath)
                  /\ cb.fn = "stop_btn" => stop_btn' = "disabled"]_vars

\* the file was deleted after Play; the worker found it missing, logged the
\* error without a key event; preset a, whose MIDI it was, was selected in
\* between, so cfg.midi_path is empty: Play and Stop are both disabled
C13_Witness ==
    \E w \in Workers :
        /\ workers[w].pc = "done" /\ NoPending(w)
        /\ Logged(w, "ERROR") /\ kb[w] = <<>>
        /\ workers[w].midi_path # NoPath /\ ~FileAt(workers[w].midi_path).exists
        /\ cfg.midi_path = NoPath
        /\ play_btn = "disabled" /\ stop_btn = "disabled"

(***************************************************************************)
(* C15                                                                     *)
(***************************************************************************)
\* C15: once stop_drawing has set STOP_FLAG while a draw thread runs, that
\* thread clicks at most once more, looks at no further pixel and ends with
\* the status 'Drawing stopped.'; and no draw thread clicks while another
\* one is in the middle of a click of its own.
C15_StopDrawingOneThread ==
    [][/\ \A w \in Drawers :
              draw_mark'[w].set =>
                  /\ Len(clicks'[w]) <= draw_mark'[w].clicks + 1
                  /\ draw_threads'[w].visited = draw_mark'[w].visited
                  /\ draw_threads'[w].pc = "done" =>
                         draw_threads'[w].status = "Drawing stopped."
       /\ \A w \in Drawers, x \in Drawers :
              (w # x /\ clicks'[w] # clicks[w]) => draw_threads[x].pc # "click"]_vars

====
